---- MODULE Spec2Model ----
(***************************************************************************)
(* Model of the WinTool plugin CLI verification-and-packaging pipeline     *)
(* (CLI/wintool-plugin-cli.js): runValidation, runSecurityScan,            *)
(* runFunctionalityTests and the validate / security / test / build        *)
(* commands that sequence them over a plugin directory on disk.            *)
(*                                                                         *)
(* Strings are sequences of lexemes (tokens); a file's text is the         *)
(* sequence of its lexemes, so String.includes is contiguous-subsequence   *)
(* search and a regular expression is matched lexeme by lexeme.  A path is *)
(* a sequence of segments, each segment a string; paths are relative to    *)
(* the directory that holds the plugin root.                               *)
(***************************************************************************)
EXTENDS Integers, Sequences, FiniteSets, TLC

VARIABLES fs,             \* the file system: existing path -> entry
          cmd,            \* command the CLI process is running
          pc,             \* position inside the command
          validation,     \* ValidationReport held by the command, or NoValidation
          security,       \* SecurityReport held by the command, or NoSecurity
          functionality,  \* FunctionalityReport held by the command, or NoFunctionality
          stages,         \* stages executed so far by this command, in order
          result,         \* value returned by the command: "none", "true", "false"
          outputPath,     \* archive path computed by buildPlugin, <<>> before
          packageCalls,   \* number of createPluginPackage invocations
          archived,       \* files the archive written by this build holds
          hash,           \* <<>> or the one result of calculateDirectoryHash in this build
          exitCode,       \* exit status of the process, -1 while it runs
          prevHash,       \* hash result of the latest earlier build on this disk
          edits,          \* number of edits made to the plugin files between invocations
          printed,        \* report entries the running command has written to the console
          earlier,        \* per stage: the latest report of an ended run, with the root it saw
          other           \* a second CLI process building the plugin next to this one

vars == <<fs, cmd, pc, validation, security, functionality, stages, result,
          outputPath, packageCalls, archived, hash, exitCode, prevHash, edits,
          printed, earlier, other>>

----------------------------------------------------------------------------
(* Bounds *)

MaxTextLen == 2

\* edits the developer makes to the plugin files between invocations
MaxEdits == 2

----------------------------------------------------------------------------
(* Strings, JavaScript values *)

\* s.includes(pat)
Includes(s, pat) ==
    \E i \in 1..(Len(s) + 1) :
        /\ i + Len(pat) - 1 =< Len(s)
        /\ SubSeq(s, i, i + Len(pat) - 1) = pat

\* s.startsWith(pat)
StartsWith(s, pat) ==
    /\ Len(pat) =< Len(s)
    /\ SubSeq(s, 1, Len(pat)) = pat

\* The lexeme class \s
IsSpace(tok) == tok = " "

\* regex.test(s) for the shape  head \s* tail  used by every scan rule
MatchesSpaced(s, head, tail) ==
    \E i \in 1..Len(s) : \E j \in (i + 1)..Len(s) :
        /\ s[i] = head
        /\ s[j] = tail
        /\ \A k \in (i + 1)..(j - 1) : IsSpace(s[k])

Undefined == [t |-> "undefined", s |-> <<>>]
Str(s)    == [t |-> "string", s |-> s]
\* a truthy value that is not a string (a number such as 5)
Num5      == [t |-> "number", s |-> <<"5">>]

\* JavaScript truthiness
Truthy(v) ==
    \/ v.t = "string" /\ v.s # <<>>
    \/ v.t = "number"

\* Template-literal interpolation `${v}`
ToText(v) == v.s

----------------------------------------------------------------------------
(* Paths *)

RECURSIVE SplitAcc(_, _, _)
SplitAcc(s, cur, acc) ==
    IF s = <<>> THEN (IF cur = <<>> THEN acc ELSE Append(acc, cur))
    ELSE IF Head(s) = "/"
         THEN SplitAcc(Tail(s), <<>>, IF cur = <<>> THEN acc ELSE Append(acc, cur))
         ELSE SplitAcc(Tail(s), Append(cur, Head(s)), acc)

\* the segments of a path string, split at the separator
Split(s) == SplitAcc(s, <<>>, <<>>)

DotDot == <<"..">>

RECURSIVE NormalizeAcc(_, _)
NormalizeAcc(segs, acc) ==
    IF segs = <<>> THEN acc
    ELSE IF Head(segs) = DotDot /\ acc # <<>> /\ acc[Len(acc)] # DotDot
         THEN NormalizeAcc(Tail(segs), SubSeq(acc, 1, Len(acc) - 1))
         ELSE NormalizeAcc(Tail(segs), Append(acc, Head(segs)))

\* path.normalize: a ".." segment cancels the segment before it
Normalize(segs) == NormalizeAcc(segs, <<>>)

\* path.join(dir, s) for a path dir and a string s
Join(dir, s) == Normalize(dir \o Split(s))

\* path.basename(p)
Basename(p) == IF p = <<>> THEN <<>> ELSE p[Len(p)]

\* path.dirname(p)
Dirname(p) == IF p = <<>> THEN <<>> ELSE SubSeq(p, 1, Len(p) - 1)

\* p lies strictly below the directory dir
IsUnder(p, dir) == Len(p) > Len(dir) /\ SubSeq(p, 1, Len(dir)) = dir /\ DotDot \notin {p[i] : i \in 1..Len(p)}

----------------------------------------------------------------------------
(* File system *)

\* An entry records its type, whether it can be read, its modification
\* time, its text as lexemes and what JSON.parse makes of its bytes.
\* kind: "invalid" (SyntaxError), "null", "object"
JsonDoc(kind, name, description, version, author, icon, backend) ==
    [kind |-> kind, name |-> name, description |-> description,
     version |-> version, author |-> author, icon |-> icon, backend |-> backend]

NotJson  == JsonDoc("invalid", Undefined, Undefined, Undefined, Undefined, Undefined, Undefined)
JsonNull == JsonDoc("null", Undefined, Undefined, Undefined, Undefined, Undefined, Undefined)

DirEntry == [type |-> "dir", readable |-> TRUE, mtime |-> 0, text |-> <<>>, json |-> NotJson]
TextFile(text) == [type |-> "file", readable |-> TRUE, mtime |-> 0, text |-> text, json |-> NotJson]
JsonFile(doc)  == [type |-> "file", readable |-> TRUE, mtime |-> 0, text |-> <<>>, json |-> doc]

\* fs.access(p) resolves
Access(f, p) == p \in DOMAIN f

\* fs.readFile(p, 'utf8') resolves
CanRead(f, p) == p \in DOMAIN f /\ f[p].type = "file" /\ f[p].readable

\* the text fs.readFile(p, 'utf8') resolves to
ReadText(f, p) == f[p].text

PluginRoot == << <<"plug">> >>

\* what the disk holds at and below the plugin root
InsideRoot(f) ==
    [q \in {q \in DOMAIN f : q = PluginRoot \/ IsUnder(q, PluginRoot)} |-> f[q]]

----------------------------------------------------------------------------
(* runValidation *)

Msg(m, arg) == [msg |-> m, arg |-> arg]

requiredFiles == << <<"plugin.json">>, <<"index.html">>, <<"script.js">> >>

requiredFields == <<"name", "description", "version", "author", "icon">>

\* manifest[field]
Field(m, field) ==
    CASE field = "name"        -> m.name
      [] field = "description" -> m.description
      [] field = "version"     -> m.version
      [] field = "author"      -> m.author
      [] field = "icon"        -> m.icon
      [] field = "backend"     -> m.backend

\* readFile + JSON.parse of plugin.json yields a value (no exception)
ManifestParses(f, p) ==
    /\ CanRead(f, Join(p, <<"plugin.json">>))
    /\ f[Join(p, <<"plugin.json">>)].json.kind # "invalid"

\* JSON.parse(manifestContent)
ParseManifest(f, p) == f[Join(p, <<"plugin.json">>)].json

\* variant: the loop stops at the first missing file
RECURSIVE CheckRequiredFilesFailFast(_, _, _, _)
CheckRequiredFilesFailFast(f, p, files, v) ==
    IF files = <<>> THEN v
    ELSE IF Access(f, Join(p, Head(files)))
         THEN CheckRequiredFilesFailFast(f, p, Tail(files), v)
         ELSE [v EXCEPT !.errors = Append(@, Msg("Required file missing", Head(files))),
                        !.isValid = FALSE]

\* the loop over requiredFiles: one error per file fs.access rejects
RECURSIVE CheckRequiredFiles(_, _, _, _)
CheckRequiredFiles(f, p, files, v) ==
    IF files = <<>> THEN v
    ELSE CheckRequiredFiles(f, p, Tail(files),
            IF Access(f, Join(p, Head(files)))
            THEN v
            ELSE [v EXCEPT !.errors = Append(@, Msg("Required file missing", Head(files))),
                           !.isValid = FALSE])

\* the loop over requiredFields: one warning per falsy field
RECURSIVE CheckFields(_, _, _)
CheckFields(m, fields, v) ==
    IF fields = <<>> THEN v
    ELSE CheckFields(m, Tail(fields),
            IF Truthy(Field(m, Head(fields)))
            THEN v
            ELSE [v EXCEPT !.warnings =
                     Append(@, Msg("Recommended field missing in plugin.json", <<Head(fields)>>))])

\* the first try block: parse the manifest, warn about fields and icon.
\* A null manifest throws at the first field access, a truthy icon that
\* is no string throws at startsWith after the field warnings were pushed.
CheckManifest(f, p, v) ==
    IF ~ManifestParses(f, p) \/ ParseManifest(f, p).kind = "null"
    THEN [v EXCEPT !.errors = Append(@, Msg("Invalid plugin.json format", <<>>)),
                   !.isValid = FALSE]
    ELSE LET m  == ParseManifest(f, p)
             v1 == CheckFields(m, requiredFields, v)
         IN  IF Truthy(m.icon) /\ m.icon.t # "string"
             THEN [v1 EXCEPT !.errors = Append(@, Msg("Invalid plugin.json format", <<>>)),
                             !.isValid = FALSE]
             ELSE IF /\ Truthy(m.icon)
                     /\ ~StartsWith(m.icon.s, <<"fas fa-">>)
                     /\ ~StartsWith(m.icon.s, <<"far fa-">>)
                  THEN [v1 EXCEPT !.warnings =
                           Append(@, Msg("Icon should be a Font Awesome class", <<>>))]
                  ELSE v1

\* variant: the backend error is pushed but isValid is left alone
CheckBackendKeepsValid(f, p, v) ==
    IF ~ManifestParses(f, p) \/ ParseManifest(f, p).kind = "null"
    THEN v
    ELSE LET m == ParseManifest(f, p)
         IN  IF Truthy(m.backend)
             THEN IF m.backend.t = "string" /\ Access(f, Join(p, m.backend.s))
                  THEN v
                  ELSE [v EXCEPT !.errors =
                           Append(@, Msg("Backend file specified but not found", ToText(m.backend)))]
             ELSE v

\* variant: the declared backend is never looked up
CheckBackendSkipped(f, p, v) == v

\* variant: the catch of the second try block reports the unreadable
\* manifest once more
CheckBackendReportsAgain(f, p, v) ==
    IF ~ManifestParses(f, p) \/ ParseManifest(f, p).kind = "null"
    THEN [v EXCEPT !.errors = Append(@, Msg("Invalid plugin.json format", <<>>)),
                   !.isValid = FALSE]
    ELSE LET m == ParseManifest(f, p)
         IN  IF Truthy(m.backend)
             THEN IF m.backend.t = "string" /\ Access(f, Join(p, m.backend.s))
                  THEN v
                  ELSE [v EXCEPT !.errors =
                           Append(@, Msg("Backend file specified but not found", ToText(m.backend))),
                                 !.isValid = FALSE]
             ELSE v

\* the second try block: a truthy manifest.backend must pass fs.access;
\* path.join throws on a non-string, inside the inner try
CheckBackend(f, p, v) ==
    IF ~ManifestParses(f, p) \/ ParseManifest(f, p).kind = "null"
    THEN v
    ELSE LET m == ParseManifest(f, p)
         IN  IF Truthy(m.backend)
             THEN IF m.backend.t = "string" /\ Access(f, Join(p, m.backend.s))
                  THEN v
                  ELSE [v EXCEPT !.errors =
                           Append(@, Msg("Backend file specified but not found", ToText(m.backend))),
                                 !.isValid = FALSE]
             ELSE v

\* the third try block: two advisory checks on index.html
CheckHtml(f, p, v) ==
    LET htmlPath == Join(p, <<"index.html">>)
    IN  IF ~CanRead(f, htmlPath) THEN v
        ELSE LET html == ReadText(f, htmlPath)
                 v1 == IF ~Includes(html, <<"<!DOCTYPE html>">>)
                       THEN [v EXCEPT !.warnings =
                                Append(@, Msg("HTML file should include DOCTYPE declaration", <<>>))]
                       ELSE v
             IN  IF ~Includes(html, <<"<script src=\"script.js\">">>)
                 THEN [v1 EXCEPT !.warnings =
                          Append(@, Msg("HTML file should include script.js", <<>>))]
                 ELSE v1

\* variant: a missing plugin directory is recorded and the checks go on
RunValidationNoReturn(f, p) ==
    LET v0 == [isValid |-> TRUE, errors |-> <<>>, warnings |-> <<>>]
        v1 == IF ~Access(f, p)
              THEN [v0 EXCEPT !.errors = Append(@, Msg("Plugin directory does not exist", <<>>)),
                              !.isValid = FALSE]
              ELSE v0
    IN  CheckHtml(f, p,
          CheckBackend(f, p,
            CheckManifest(f, p,
              CheckRequiredFiles(f, p, requiredFiles, v1))))

\* variant: validation also looks outside the plugin root and rejects a
\* plugin next to which a finished archive lies
RunValidationSeesArchive(f, p) ==
    LET v0 == [isValid |-> TRUE, errors |-> <<>>, warnings |-> <<>>]
    IN  IF ~Access(f, p)
        THEN [v0 EXCEPT !.errors = Append(@, Msg("Plugin directory does not exist", <<>>)),
                        !.isValid = FALSE]
        ELSE LET v == CheckHtml(f, p,
                        CheckBackend(f, p,
                          CheckManifest(f, p,
                            CheckRequiredFiles(f, p, requiredFiles, v0))))
             IN  IF \E q \in DOMAIN f : q # p /\ ~IsUnder(q, p) /\ f[q].text = <<"zip">>
                 THEN [v EXCEPT !.errors = Append(@, Msg("Plugin already built", <<>>)),
                                !.isValid = FALSE]
                 ELSE v

RunValidation(f, p) ==
    LET v0 == [isValid |-> TRUE, errors |-> <<>>, warnings |-> <<>>]
    IN  IF ~Access(f, p)
        THEN [v0 EXCEPT !.errors = Append(@, Msg("Plugin directory does not exist", <<>>)),
                        !.isValid = FALSE]
        ELSE CheckHtml(f, p,
               CheckBackend(f, p,
                 CheckManifest(f, p,
                   CheckRequiredFiles(f, p, requiredFiles, v0))))

----------------------------------------------------------------------------
(* runSecurityScan *)

jsFiles == << <<"script.js">>, <<"backend.js">> >>

\* each pattern has the shape  head \s* tail
Rule(head, tail, message, severity) ==
    [head |-> head, tail |-> tail, message |-> message, severity |-> severity]

\* variant: eval is rated medium
dangerousPatternsEvalMedium ==
    << Rule("eval", "(", "Use of eval() function detected", "medium"),
       Rule("Function", "(", "Use of Function constructor detected", "high"),
       Rule("innerHTML", "=", "Direct innerHTML assignment detected", "medium"),
       Rule("document.write", "(", "Use of document.write() detected", "medium"),
       Rule("window.location", "=", "Direct location assignment detected", "medium"),
       Rule("require", "(", "Direct require() usage detected (use api.require instead)", "medium") >>

\* variant: innerHTML assignment is rated high
dangerousPatternsInnerHtmlHigh ==
    << Rule("eval", "(", "Use of eval() function detected", "high"),
       Rule("Function", "(", "Use of Function constructor detected", "high"),
       Rule("innerHTML", "=", "Direct innerHTML assignment detected", "high"),
       Rule("document.write", "(", "Use of document.write() detected", "medium"),
       Rule("window.location", "=", "Direct location assignment detected", "medium"),
       Rule("require", "(", "Direct require() usage detected (use api.require instead)", "medium") >>

dangerousPatterns ==
    << Rule("eval", "(", "Use of eval() function detected", "high"),
       Rule("Function", "(", "Use of Function constructor detected", "high"),
       Rule("innerHTML", "=", "Direct innerHTML assignment detected", "medium"),
       Rule("document.write", "(", "Use of document.write() detected", "medium"),
       Rule("window.location", "=", "Direct location assignment detected", "medium"),
       Rule("require", "(", "Direct require() usage detected (use api.require instead)", "medium") >>

\* a finding; the code writes the file name into the message text
Issue(file, message, severity) == [file |-> file, message |-> message, severity |-> severity]

\* variant: every match clears isSecure, whatever its severity
RECURSIVE ApplyRulesAnySeverity(_, _, _, _)
ApplyRulesAnySeverity(rules, jsFile, jsContent, r) ==
    IF rules = <<>> THEN r
    ELSE LET rule == Head(rules)
         IN  ApplyRulesAnySeverity(Tail(rules), jsFile, jsContent,
                IF MatchesSpaced(jsContent, rule.head, rule.tail)
                THEN [r EXCEPT !.issues = Append(@, Issue(jsFile, rule.message, rule.severity)),
                               !.isSecure = FALSE]
                ELSE r)

\* the loop over dangerousPatterns for one file's content
RECURSIVE ApplyRules(_, _, _, _)
ApplyRules(rules, jsFile, jsContent, r) ==
    IF rules = <<>> THEN r
    ELSE LET rule == Head(rules)
         IN  ApplyRules(Tail(rules), jsFile, jsContent,
                IF MatchesSpaced(jsContent, rule.head, rule.tail)
                THEN [r EXCEPT !.issues = Append(@, Issue(jsFile, rule.message, rule.severity)),
                               !.isSecure = IF rule.severity = "high" THEN FALSE ELSE @]
                ELSE r)

\* variant: the namespacing recommendation is made once per scan
ScanJsFileRecommendsOnce(f, p, jsFile, r) ==
    LET jsPath == Join(p, jsFile)
    IN  IF ~CanRead(f, jsPath) THEN r
        ELSE LET jsContent == ReadText(f, jsPath)
                 r1 == ApplyRules(dangerousPatterns, jsFile, jsContent, r)
             IN  IF /\ Includes(jsContent, <<"wintoolAPI">>)
                    /\ ~Includes(jsContent, <<"window.", "wintoolAPI">>)
                    /\ r1.recommendations = <<>>
                 THEN [r1 EXCEPT !.recommendations =
                          Append(@, "Use window.wintoolAPI for better compatibility")]
                 ELSE r1

\* the body of the loop over jsFiles: an unreadable file is skipped
ScanJsFile(f, p, jsFile, r) ==
    LET jsPath == Join(p, jsFile)
    IN  IF ~CanRead(f, jsPath) THEN r
        ELSE LET jsContent == ReadText(f, jsPath)
                 r1 == ApplyRules(dangerousPatterns, jsFile, jsContent, r)
             IN  IF /\ Includes(jsContent, <<"wintoolAPI">>)
                    /\ ~Includes(jsContent, <<"window.", "wintoolAPI">>)
                 THEN [r1 EXCEPT !.recommendations =
                          Append(@, "Use window.wintoolAPI for better compatibility")]
                 ELSE r1

RECURSIVE ScanJsFiles(_, _, _, _)
ScanJsFiles(f, p, files, r) ==
    IF files = <<>> THEN r
    ELSE ScanJsFiles(f, p, Tail(files), ScanJsFile(f, p, Head(files), r))

\* the check of index.html: inline script with eval, missing CSP
ScanHtml(f, p, r) ==
    LET htmlPath == Join(p, <<"index.html">>)
    IN  IF ~CanRead(f, htmlPath) THEN r
        ELSE LET html == ReadText(f, htmlPath)
                 r1 == IF Includes(html, <<"<script>">>) /\ Includes(html, <<"eval", "(">>)
                       THEN [r EXCEPT !.issues =
                                Append(@, Issue(<<>>, "Inline script with eval() detected", "high")),
                                      !.isSecure = FALSE]
                       ELSE r
             IN  IF ~Includes(html, <<"Content-Security-Policy">>)
                 THEN [r1 EXCEPT !.recommendations =
                          Append(@, "Consider adding Content-Security-Policy meta tag")]
                 ELSE r1

\* Every statement that can throw sits in an inner try, so the outer
\* catch ('Scan error') is never entered.
RunSecurityScan(f, p) ==
    LET r0 == [isSecure |-> TRUE, issues |-> <<>>, recommendations |-> <<>>]
    IN  ScanHtml(f, p, ScanJsFiles(f, p, jsFiles, r0))

----------------------------------------------------------------------------
(* runFunctionalityTests *)

\* Test 1: the two idiom checks on script.js
TestScript(scriptContent, t) ==
    LET t1 == IF ~Includes(scriptContent, <<"DOMContentLoaded">>)
              THEN [t EXCEPT !.issues = Append(@, "Script should listen for DOMContentLoaded event"),
                             !.passed = FALSE]
              ELSE t
    IN  IF ~Includes(scriptContent, <<"markTabAsReady">>)
        THEN [t1 EXCEPT !.issues = Append(@, "Script should call markTabAsReady() when initialized"),
                        !.passed = FALSE]
        ELSE t1

\* Test 2: backend.js, when it can be read
TestBackend(f, p, t) ==
    LET backendPath == Join(p, <<"backend.js">>)
    IN  IF ~CanRead(f, backendPath) THEN t
        ELSE LET backendContent == ReadText(f, backendPath)
                 t1 == IF ~Includes(backendContent, <<"module.exports">>)
                       THEN [t EXCEPT !.issues =
                                Append(@, "Backend should export module with initialize function"),
                                      !.passed = FALSE]
                       ELSE t
             IN  IF ~Includes(backendContent, <<"initialize">>)
                 THEN [t1 EXCEPT !.issues = Append(@, "Backend should have initialize function"),
                                 !.passed = FALSE]
                 ELSE t1

\* Test 3: styles.css, when it can be read
TestCss(f, p, t) ==
    LET cssPath == Join(p, <<"styles.css">>)
    IN  IF ~CanRead(f, cssPath) THEN t
        ELSE IF ~Includes(ReadText(f, cssPath), <<"var(--">>)
             THEN [t EXCEPT !.issues = Append(@, "CSS should use CSS variables for theming"),
                            !.passed = FALSE]
             ELSE t

\* variant: the catch records 'Test error' and leaves passed as it is
RunFunctionalityTestsErrorPasses(f, p) ==
    LET t0 == [passed |-> TRUE, issues |-> <<>>]
        scriptPath == Join(p, <<"script.js">>)
    IN  IF ~CanRead(f, scriptPath)
        THEN [t0 EXCEPT !.issues = Append(@, "Test error")]
        ELSE TestCss(f, p, TestBackend(f, p, TestScript(ReadText(f, scriptPath), t0)))

\* a failed read of script.js throws out of the whole try block
RunFunctionalityTests(f, p) ==
    LET t0 == [passed |-> TRUE, issues |-> <<>>]
        scriptPath == Join(p, <<"script.js">>)
    IN  IF ~CanRead(f, scriptPath)
        THEN [t0 EXCEPT !.issues = Append(@, "Test error"), !.passed = FALSE]
        ELSE TestCss(f, p, TestBackend(f, p, TestScript(ReadText(f, scriptPath), t0)))

----------------------------------------------------------------------------
(* buildPlugin helpers *)

\* s.replace(/\s+/g, '-') : every run of whitespace becomes one dash
RECURSIVE ReplaceSpaces(_, _)
ReplaceSpaces(s, inRun) ==
    IF s = <<>> THEN <<>>
    ELSE IF IsSpace(Head(s))
         THEN (IF inRun THEN <<>> ELSE <<"-">>) \o ReplaceSpaces(Tail(s), TRUE)
         ELSE <<Head(s)>> \o ReplaceSpaces(Tail(s), FALSE)

\* the try block up to createPluginPackage throws: the manifest cannot be
\* read or parsed, is null, or its truthy name has no replace method
OutputPathThrows(f, p) ==
    \/ ~ManifestParses(f, p)
    \/ ParseManifest(f, p).kind = "null"
    \/ Truthy(ParseManifest(f, p).name) /\ ParseManifest(f, p).name.t # "string"

\* variant: the archive is always named after the plugin directory
OutputPathFromBasename(f, p) ==
    Normalize(p \o <<DotDot>> \o Split(ReplaceSpaces(Basename(p), FALSE) \o <<".zip">>))

\* path.join(pluginPath, '..', `${pluginName.replace(/\s+/g, '-')}.zip`)
OutputPath(f, p) ==
    LET manifest   == ParseManifest(f, p)
        pluginName == IF Truthy(manifest.name) THEN manifest.name.s ELSE Basename(p)
    IN  Normalize(p \o <<DotDot>> \o Split(ReplaceSpaces(pluginName, FALSE) \o <<".zip">>))

\* item.startsWith('.')
DotPrefixed(seg) == seg # <<>> /\ Head(seg) = "."

\* getAllFiles: the walk descends into directories that are neither
\* dot-prefixed nor node_modules and collects files that are not dot-prefixed
GetAllFiles(f, dirPath) ==
    {q \in DOMAIN f :
        /\ IsUnder(q, dirPath)
        /\ f[q].type = "file"
        /\ ~DotPrefixed(Basename(q))
        /\ \A i \in (Len(dirPath) + 1)..(Len(q) - 1) :
              ~DotPrefixed(q[i]) /\ q[i] # <<"node_modules">>}

\* calculateDirectoryHash rejects: some collected file cannot be read
HashThrows(f, dirPath) == \E q \in GetAllFiles(f, dirPath) : ~f[q].readable

\* the orders in which readdir may list a set of files
RECURSIVE Enumerations(_)
Enumerations(S) ==
    IF S = {} THEN {<<>>}
    ELSE UNION {{<<x>> \o e : e \in Enumerations(S \ {x})} : x \in S}

\* the lexemes that occur in paths, in ascending order of their code units
LexemeOrder ==
    << "-", ".", ".zip", "/", "5", "My", "Plugin", "Thumbs.db", "backend.js", "dep.js", "env",
       "index.html", "lib", "node_modules", "old", "out", "outside.js", "plug", "plugin.json",
       "script.js", "server.js", "styles.css", "sub", "util.js" >>

Rank(tok) == CHOOSE i \in 1..Len(LexemeOrder) : LexemeOrder[i] = tok

\* the path as the string getAllFiles pushes: segments joined by the separator
RECURSIVE PathString(_)
PathString(q) ==
    IF q = <<>> THEN <<>>
    ELSE IF Len(q) = 1 THEN q[1]
    ELSE q[1] \o <<"/">> \o PathString(Tail(q))

\* a < b in the default order of Array.prototype.sort: by code units
RECURSIVE StringLess(_, _)
StringLess(a, b) ==
    IF b = <<>> THEN FALSE
    ELSE IF a = <<>> THEN TRUE
    ELSE IF Head(a) = Head(b) THEN StringLess(Tail(a), Tail(b))
    ELSE Rank(Head(a)) < Rank(Head(b))

RECURSIVE InsertPath(_, _)
InsertPath(q, sorted) ==
    IF sorted = <<>> THEN <<q>>
    ELSE IF StringLess(PathString(q), PathString(Head(sorted)))
         THEN <<q>> \o sorted
         ELSE <<Head(sorted)>> \o InsertPath(q, Tail(sorted))

\* files.sort()
RECURSIVE SortPaths(_)
SortPaths(files) ==
    IF files = <<>> THEN <<>>
    ELSE InsertPath(Head(files), SortPaths(Tail(files)))

\* one unit of the byte stream fed to the digest
Unit(lex, doc) == [lex |-> lex, doc |-> doc]

\* the content fs.readFile(file, 'utf8') hands to hash.update
Bytes(e) ==
    IF e.json.kind = "invalid"
    THEN [i \in 1..Len(e.text) |-> Unit(e.text[i], NotJson)]
    ELSE <<Unit("", e.json)>>

\* hash.update(content) file after file: the digest is taken over the
\* concatenation of the contents, here the concatenation itself
RECURSIVE UpdateAll(_, _)
UpdateAll(f, files) ==
    IF files = <<>> THEN <<>>
    ELSE Bytes(f[Head(files)]) \o UpdateAll(f, Tail(files))

\* variant: the files are hashed in the order readdir listed them
CalculateDirectoryHashUnsorted(f, listed) ==
    [files  |-> listed,
     bytes  |-> [i \in 1..Len(listed) |-> Bytes(f[listed[i]])],
     digest |-> UpdateAll(f, listed)]

\* calculateDirectoryHash for the files getAllFiles listed: the files in
\* hashing order, what was read from each, and the digest
CalculateDirectoryHash(f, listed) ==
    LET files == SortPaths(listed)
    IN  [files  |-> files,
         bytes  |-> [i \in 1..Len(files) |-> Bytes(f[files[i]])],
         digest |-> UpdateAll(f, files)]

\* the files archive.glob('**/*', {cwd, ignore}) adds: dot entries are not
\* matched, and the ignore list drops node_modules/**, .git/**, and
\* top-level *.zip, .DS_Store, Thumbs.db
ArchiveFiles(f, cwd) ==
    {q \in DOMAIN f :
        /\ IsUnder(q, cwd)
        /\ f[q].type = "file"
        /\ \A i \in (Len(cwd) + 1)..Len(q) : ~DotPrefixed(q[i])
        /\ q[Len(cwd) + 1] # <<"node_modules">>
        /\ ~(Len(q) = Len(cwd) + 1 /\ q[Len(q)][Len(q[Len(q)])] = ".zip")
        /\ ~(Len(q) = Len(cwd) + 1 /\ q[Len(q)] = <<"Thumbs.db">>)}

\* archiver emits 'error': a file to be added cannot be read
ArchiveThrows(f, cwd) == \E q \in ArchiveFiles(f, cwd) : ~f[q].readable

\* fs.createWriteStream(outputPath) can open: the parent directory exists
\* and the path is no directory
CanOpenForWrite(f, out) ==
    /\ out # <<>>
    /\ DotDot \notin {out[i] : i \in 1..Len(out)}
    /\ Dirname(out) = <<>> \/ (Dirname(out) \in DOMAIN f /\ f[Dirname(out)].type = "dir")
    /\ out \in DOMAIN f => f[out].type = "file"

PartialArchive  == [type |-> "file", readable |-> TRUE, mtime |-> 0, text |-> <<"zip-partial">>, json |-> NotJson]
CompleteArchive == [type |-> "file", readable |-> TRUE, mtime |-> 0, text |-> <<"zip">>, json |-> NotJson]

\* the file at path out becomes e
WriteFile(f, out, e) == [q \in DOMAIN f \cup {out} |-> IF q = out THEN e ELSE f[q]]

----------------------------------------------------------------------------
(* The commands of the CLI process *)

\* the four commands that run pipeline stages; create, list, help and
\* version touch none of the state below
Commands == {"validate", "security", "test", "build"}

\* the console before a command has written any report entry
NoOutput ==
    [errors |-> <<>>, warnings |-> <<>>, issues |-> <<>>, recommendations |-> <<>>,
     testIssues |-> <<>>]

\* validatePlugin's output: the errors of a failed validation, and the
\* warnings of any validation
PrintValidation(out, v) ==
    [out EXCEPT !.errors   = IF v.isValid THEN @ ELSE @ \o v.errors,
                !.warnings = @ \o v.warnings]

\* securityScan's output: the issues of a failed scan, and the
\* recommendations of any scan
PrintScan(out, r) ==
    [out EXCEPT !.issues          = IF r.isSecure THEN @ ELSE @ \o r.issues,
                !.recommendations = @ \o r.recommendations]

\* runFunctionalityTests logs each issue before it returns
PrintTestIssues(out, t) == [out EXCEPT !.testIssues = @ \o t.issues]

\* no ended run has left a report yet
NoEarlier == [validation |-> <<>>, security |-> <<>>, functionality |-> <<>>]

\* the report a stage of the ended run returned, with the plugin root as
\* it is when the run ends; a stage the run skipped keeps its older entry
Remember(old, report) ==
    IF report = <<>> THEN old ELSE <<[root |-> InsideRoot(fs), report |-> report[1]]>>

\* the second process before it is started
OtherIdle ==
    [pc |-> "idle", result |-> "none", outputPath |-> <<>>, archived |-> {}, hash |-> <<>>]

Bool(b) == IF b THEN "true" ELSE "false"

\* PluginCLI.run: dispatch on the command word
Run(c) ==
    /\ cmd = "none"
    /\ cmd' = c
    /\ pc' = "start"
    /\ UNCHANGED <<fs, validation, security, functionality, stages, result,
                   outputPath, packageCalls>>
    /\ UNCHANGED <<archived, hash, exitCode, prevHash, edits>>
    /\ UNCHANGED <<printed, earlier, other>>

\* validatePlugin: run the validation, print, return validation.isValid
ValidatePlugin ==
    /\ cmd = "validate" /\ pc = "start"
    /\ LET v == RunValidation(fs, PluginRoot)
       IN  /\ validation' = <<v>>
           /\ result' = Bool(v.isValid)
           /\ printed' = PrintValidation(printed, v)
    /\ stages' = Append(stages, "validation")
    /\ pc' = "returned"
    /\ UNCHANGED <<fs, cmd, security, functionality, outputPath, packageCalls>>
    /\ UNCHANGED <<archived, hash, exitCode, prevHash, edits>>
    /\ UNCHANGED <<earlier, other>>

\* securityScan: run the scan, print, return scanResult.isSecure
SecurityScan ==
    /\ cmd = "security" /\ pc = "start"
    /\ LET r == RunSecurityScan(fs, PluginRoot)
       IN  /\ security' = <<r>>
           /\ result' = Bool(r.isSecure)
           /\ printed' = PrintScan(printed, r)
    /\ stages' = Append(stages, "security")
    /\ pc' = "returned"
    /\ UNCHANGED <<fs, cmd, validation, functionality, outputPath, packageCalls>>
    /\ UNCHANGED <<archived, hash, exitCode, prevHash, edits>>
    /\ UNCHANGED <<earlier, other>>

\* testPlugin, first await: the validation tests
TestValidation ==
    /\ cmd = "test" /\ pc = "start"
    /\ validation' = <<RunValidation(fs, PluginRoot)>>
    /\ stages' = Append(stages, "validation")
    /\ pc' = "t_security"
    /\ UNCHANGED <<fs, cmd, security, functionality, result, outputPath, packageCalls>>
    /\ UNCHANGED <<archived, hash, exitCode, prevHash, edits>>
    /\ UNCHANGED <<printed, earlier, other>>

\* testPlugin, second await: the security tests
TestSecurity ==
    /\ cmd = "test" /\ pc = "t_security"
    /\ security' = <<RunSecurityScan(fs, PluginRoot)>>
    /\ stages' = Append(stages, "security")
    /\ pc' = "t_functionality"
    /\ UNCHANGED <<fs, cmd, validation, functionality, result, outputPath, packageCalls>>
    /\ UNCHANGED <<archived, hash, exitCode, prevHash, edits>>
    /\ UNCHANGED <<printed, earlier, other>>

\* variant: the summary looks at validation and scan only
TestFunctionalityNotGating ==
    /\ cmd = "test" /\ pc = "t_functionality"
    /\ LET t == RunFunctionalityTests(fs, PluginRoot)
       IN  /\ functionality' = <<t>>
           /\ printed' = PrintTestIssues(printed, t)
           /\ result' = Bool(validation[1].isValid /\ security[1].isSecure)
    /\ stages' = Append(stages, "functionality")
    /\ pc' = "returned"
    /\ UNCHANGED <<fs, cmd, validation, security, outputPath, packageCalls>>
    /\ UNCHANGED <<archived, hash, exitCode, prevHash, edits>>
    /\ UNCHANGED <<earlier, other>>

\* testPlugin, third await and summary: allTestsPassed is false as soon
\* as one of the three stages failed
TestFunctionality ==
    /\ cmd = "test" /\ pc = "t_functionality"
    /\ LET t == RunFunctionalityTests(fs, PluginRoot)
       IN  /\ functionality' = <<t>>
           /\ printed' = PrintTestIssues(printed, t)
           /\ result' = Bool(validation[1].isValid /\ security[1].isSecure /\ t.passed)
    /\ stages' = Append(stages, "functionality")
    /\ pc' = "returned"
    /\ UNCHANGED <<fs, cmd, validation, security, outputPath, packageCalls>>
    /\ UNCHANGED <<archived, hash, exitCode, prevHash, edits>>
    /\ UNCHANGED <<earlier, other>>

\* variant: the build goes on to the scan whatever the validation says
BuildValidateNoGate ==
    /\ cmd = "build" /\ pc = "start"
    /\ validation' = <<RunValidation(fs, PluginRoot)>>
    /\ pc' = "b_scan"
    /\ stages' = Append(stages, "validation")
    /\ UNCHANGED <<fs, cmd, security, functionality, result, outputPath, packageCalls>>
    /\ UNCHANGED <<archived, hash, exitCode, prevHash, edits>>
    /\ UNCHANGED <<printed, earlier, other>>

\* buildPlugin, first gate: validation
BuildValidate ==
    /\ cmd = "build" /\ pc = "start"
    /\ LET v == RunValidation(fs, PluginRoot)
       IN  /\ validation' = <<v>>
           /\ IF ~v.isValid
              THEN result' = "false" /\ pc' = "returned"
              ELSE result' = result /\ pc' = "b_scan"
    /\ stages' = Append(stages, "validation")
    /\ UNCHANGED <<fs, cmd, security, functionality, outputPath, packageCalls>>
    /\ UNCHANGED <<archived, hash, exitCode, prevHash, edits>>
    /\ UNCHANGED <<printed, earlier, other>>

\* variant: the build goes on to packaging whatever the scan says
BuildScanNoGate ==
    /\ cmd = "build" /\ pc = "b_scan"
    /\ security' = <<RunSecurityScan(fs, PluginRoot)>>
    /\ pc' = "b_package"
    /\ stages' = Append(stages, "security")
    /\ UNCHANGED <<fs, cmd, validation, functionality, result, outputPath, packageCalls>>
    /\ UNCHANGED <<archived, hash, exitCode, prevHash, edits>>
    /\ UNCHANGED <<printed, earlier, other>>

\* buildPlugin, second gate: security scan
BuildScan ==
    /\ cmd = "build" /\ pc = "b_scan"
    /\ LET r == RunSecurityScan(fs, PluginRoot)
       IN  /\ security' = <<r>>
           /\ IF ~r.isSecure
              THEN result' = "false" /\ pc' = "returned"
              ELSE result' = result /\ pc' = "b_package"
    /\ stages' = Append(stages, "security")
    /\ UNCHANGED <<fs, cmd, validation, functionality, outputPath, packageCalls>>
    /\ UNCHANGED <<archived, hash, exitCode, prevHash, edits>>
    /\ UNCHANGED <<printed, earlier, other>>

\* buildPlugin, try block: read the manifest, derive the output path and
\* call createPluginPackage; an exception before the call ends the build
BuildPackage ==
    /\ cmd = "build" /\ pc = "b_package"
    /\ IF OutputPathThrows(fs, PluginRoot)
       THEN /\ result' = "false"
            /\ pc' = "returned"
            /\ UNCHANGED <<outputPath, packageCalls, stages>>
       ELSE /\ outputPath' = OutputPath(fs, PluginRoot)
            /\ packageCalls' = packageCalls + 1
            /\ stages' = Append(stages, "package")
            /\ pc' = "b_open"
            /\ UNCHANGED result
    /\ UNCHANGED <<fs, cmd, validation, security, functionality>>
    /\ UNCHANGED <<archived, hash, exitCode, prevHash, edits>>
    /\ UNCHANGED <<printed, earlier, other>>

\* createPluginPackage: the write stream opens, the file exists from now on
PackageOpen ==
    /\ cmd = "build" /\ pc = "b_open"
    /\ CanOpenForWrite(fs, outputPath)
    /\ fs' = WriteFile(fs, outputPath, PartialArchive)
    /\ pc' = "b_write"
    /\ UNCHANGED <<cmd, validation, security, functionality, stages, result,
                   outputPath, packageCalls>>
    /\ UNCHANGED <<archived, hash, exitCode, prevHash, edits>>
    /\ UNCHANGED <<printed, earlier, other>>

\* createPluginPackage: the write stream emits 'error' (the destination
\* cannot be opened or written); nothing listens, the process dies
PackageStreamError ==
    /\ cmd = "build" /\ pc \in {"b_open", "b_write"}
    /\ pc' = "crashed"
    /\ exitCode' = 1
    /\ UNCHANGED <<fs, cmd, validation, security, functionality, stages, result,
                   outputPath, packageCalls>>
    /\ UNCHANGED <<archived, hash, prevHash, edits>>
    /\ UNCHANGED <<printed, earlier, other>>

\* createPluginPackage: archive emits 'error', the promise rejects and
\* buildPlugin's catch returns false
PackageArchiveError ==
    /\ cmd = "build" /\ pc = "b_write"
    /\ ArchiveThrows(fs, PluginRoot)
    /\ result' = "false"
    /\ pc' = "returned"
    /\ UNCHANGED <<fs, cmd, validation, security, functionality, stages,
                   outputPath, packageCalls>>
    /\ UNCHANGED <<archived, hash, exitCode, prevHash, edits>>
    /\ UNCHANGED <<printed, earlier, other>>

\* createPluginPackage: output emits 'close', the promise resolves
PackageClose ==
    /\ cmd = "build" /\ pc = "b_write"
    /\ ~ArchiveThrows(fs, PluginRoot)
    /\ fs' = WriteFile(fs, outputPath, CompleteArchive)
    /\ archived' = ArchiveFiles(fs, PluginRoot)
    /\ pc' = "b_hash"
    /\ UNCHANGED <<cmd, validation, security, functionality, stages, result,
                   outputPath, packageCalls>>
    /\ UNCHANGED <<hash, exitCode, prevHash, edits>>
    /\ UNCHANGED <<printed, earlier, other>>

\* buildPlugin: calculateDirectoryHash, then return true; a failed read
\* lands in the catch and returns false
BuildHash ==
    /\ cmd = "build" /\ pc = "b_hash"
    /\ IF HashThrows(fs, PluginRoot)
       THEN result' = "false" /\ hash' = hash
       ELSE /\ \E listed \in Enumerations(GetAllFiles(fs, PluginRoot)) :
                  hash' = <<CalculateDirectoryHash(fs, listed)>>
            /\ result' = "true"
    /\ stages' = Append(stages, "hash")
    /\ pc' = "returned"
    /\ UNCHANGED <<fs, cmd, validation, security, functionality, outputPath, packageCalls>>
    /\ UNCHANGED <<archived, exitCode, prevHash, edits>>
    /\ UNCHANGED <<printed, earlier, other>>

\* run() resolves without looking at what the command returned; the
\* process ends with status 0
ProcessExit ==
    /\ pc = "returned"
    /\ pc' = "exited"
    /\ exitCode' = 0
    /\ UNCHANGED <<fs, cmd, validation, security, functionality, stages, result,
                   outputPath, packageCalls, archived, hash, prevHash, edits>>
    /\ UNCHANGED <<printed, earlier, other>>

\* the process has ended; the CLI is invoked again on the same disk
Restart ==
    /\ pc \in {"exited", "crashed"}
    /\ cmd' = "none"
    /\ pc' = "idle"
    /\ validation' = <<>>
    /\ security' = <<>>
    /\ functionality' = <<>>
    /\ stages' = <<>>
    /\ result' = "none"
    /\ outputPath' = <<>>
    /\ packageCalls' = 0
    /\ archived' = {}
    /\ hash' = <<>>
    /\ exitCode' = -1
    /\ prevHash' = IF hash # <<>> THEN hash ELSE prevHash
    /\ printed' = NoOutput
    /\ UNCHANGED <<fs, edits, other>>

\* a new invocation whose predecessor's reports are not kept for comparison
NewInvocation == Restart /\ UNCHANGED earlier

\* a new invocation, with the reports of the ended run kept for comparison
Rerun ==
    /\ Restart
    /\ earlier' = [validation    |-> Remember(earlier.validation, validation),
                   security      |-> Remember(earlier.security, security),
                   functionality |-> Remember(earlier.functionality, functionality)]

Next ==
    \/ \E c \in Commands : Run(c)
    \/ ValidatePlugin
    \/ SecurityScan
    \/ TestValidation
    \/ TestSecurity
    \/ TestFunctionality
    \/ BuildValidate
    \/ BuildScan
    \/ BuildPackage
    \/ PackageOpen
    \/ PackageStreamError
    \/ PackageArchiveError
    \/ PackageClose
    \/ BuildHash
    \/ ProcessExit
    \/ NewInvocation

----------------------------------------------------------------------------
(* Initial states: the plugin directories the CLI is pointed at *)

Absent == [type |-> "none", readable |-> FALSE, mtime |-> 0, text |-> <<>>, json |-> NotJson]

Unreadable(e) == [e EXCEPT !.readable = FALSE]

\* a file directly under the plugin root
InRoot(name) == Append(PluginRoot, <<name>>)

\* a file next to the plugin root
OutsidePath == << <<"outside.js">> >>

\* all sequences over toks of length at most n
Texts(toks, n) == UNION {[1..k -> toks] : k \in 0..n}

MkFs(root, manifest, html, script, backend, css, server, outside) ==
    LET all  == { <<PluginRoot, root>>,
                  <<InRoot("plugin.json"), manifest>>,
                  <<InRoot("index.html"), html>>,
                  <<InRoot("script.js"), script>>,
                  <<InRoot("backend.js"), backend>>,
                  <<InRoot("styles.css"), css>>,
                  <<InRoot("server.js"), server>>,
                  <<OutsidePath, outside>> }
        kept == {x \in all : /\ x[2].type # "none"
                             /\ x[1] \in {PluginRoot, OutsidePath} \/ root.type = "dir"}
    IN  [q \in {x[1] : x \in kept} |-> (CHOOSE x \in kept : x[1] = q)[2]]

GoodManifest ==
    JsonDoc("object", Str(<<"My", " ", "Plugin">>), Str(<<"A plugin">>), Str(<<"1.0.0">>),
            Str(<<"me">>), Str(<<"fas fa-", "cog">>), Undefined)

GoodHtml   == <<"<!DOCTYPE html>", "<script src=\"script.js\">">>
GoodScript == <<"markTabAsReady">>
LegacyScript == <<"DOMContentLoaded", "markTabAsReady">>
GoodBackend == <<"module.exports", "initialize">>

JsTokens   == {"eval", "Function", "innerHTML", "(", "=", " "}
HtmlTokens == {"<!DOCTYPE html>", "<script src=\"script.js\">", "<script>", "eval", "(",
               "Content-Security-Policy"}

ExtraJsTexts ==
    { <<"eval", " ", " ", "(">>, <<"document.write", "(">>, <<"window.location", " ", "=">>,
      <<"require", "(">>, <<"wintoolAPI">>, <<"window.", "wintoolAPI">>,
      <<"DOMContentLoaded", "markTabAsReady">>, <<"innerHTML", "=", "require", "(">> }

ExtraHtmlTexts ==
    { <<"<script>", "eval", "(">>, <<"<script>", "eval", " ", "(">>,
      <<"<!DOCTYPE html>", "<script src=\"script.js\">", "Content-Security-Policy">> }

\* plugin directories that differ in which files exist and what they hold
FsPipeline ==
    {MkFs(DirEntry, manifest, html, script, backend, css, Absent, Absent) :
        manifest \in {Absent, JsonFile(GoodManifest), JsonFile(NotJson)},
        html     \in {Absent, TextFile(GoodHtml), TextFile(<<"<script>", "eval", "(">>)},
        script   \in {Absent, TextFile(GoodScript), TextFile(LegacyScript),
                      TextFile(<<"eval", "(">>), TextFile(<<"innerHTML", "=">>)},
        backend  \in {Absent, TextFile(GoodBackend), TextFile(<<"Function", "(">>)},
        css      \in {Absent, TextFile(<<"var(--">>), Unreadable(TextFile(<<>>))}}
    \cup {MkFs(Absent, Absent, Absent, Absent, Absent, Absent, Absent, Absent)}

\* plugin directories that differ in the manifest's fields
FsManifest ==
    {MkFs(DirEntry, JsonFile(JsonDoc("object", name, description, version, author, icon, Undefined)),
          TextFile(GoodHtml), TextFile(GoodScript), Absent, Absent, Absent, Absent) :
        name        \in {Undefined, Str(<<"My", " ", "Plugin">>), Str(<<"plug", "/", "out">>), Num5},
        description \in {Undefined, Str(<<"A plugin">>)},
        version     \in {Undefined, Str(<<"1.0.0">>)},
        author      \in {Undefined, Str(<<"me">>)},
        icon        \in {Undefined, Str(<<>>), Str(<<"fas fa-", "cog">>), Str(<<"far fa-", "star">>),
                         Str(<<"icon-cog">>), Num5}}
    \cup {MkFs(DirEntry, manifest, TextFile(GoodHtml), TextFile(GoodScript),
               Absent, Absent, Absent, Absent) :
            manifest \in {JsonFile(JsonNull), Unreadable(JsonFile(GoodManifest))}}

\* plugin directories that differ in the declared backend and the files it may name
FsBackend ==
    {MkFs(DirEntry, JsonFile([GoodManifest EXCEPT !.backend = b]), html, script,
          backend, Absent, server, outside) :
        b       \in {Str(<<>>), Str(<<"backend.js">>), Str(<<"server.js">>),
                     Str(<<"..", "/", "outside.js">>), Num5},
        html    \in {Absent, TextFile(GoodHtml)},
        script  \in {TextFile(GoodScript)},
        backend \in {Absent, TextFile(GoodBackend), TextFile(<<"eval", "(">>)},
        server  \in {Absent, TextFile(<<"eval", "(">>)},
        outside \in {Absent, TextFile(<<"eval", "(">>)}}

\* plugin directories that differ in the text of one scanned file
FsScanned ==
    {MkFs(DirEntry, JsonFile(GoodManifest), TextFile(GoodHtml), TextFile(text),
          Absent, Absent, Absent, Absent) :
        text \in Texts(JsTokens, MaxTextLen) \cup ExtraJsTexts}
    \cup {MkFs(DirEntry, JsonFile([GoodManifest EXCEPT !.backend = Str(<<"backend.js">>)]),
               TextFile(GoodHtml), TextFile(GoodScript), TextFile(text),
               Absent, Absent, Absent) :
            text \in Texts(JsTokens, MaxTextLen) \cup ExtraJsTexts}
    \cup {MkFs(DirEntry, JsonFile(GoodManifest), TextFile(text), TextFile(GoodScript),
               Absent, Absent, Absent, Absent) :
            text \in Texts(HtmlTokens, MaxTextLen) \cup ExtraHtmlTexts}

\* a complete plugin: manifest, UI entry, script, styles
CompletePlugin ==
    MkFs(DirEntry, JsonFile(GoodManifest), TextFile(GoodHtml), TextFile(GoodScript),
         Absent, TextFile(<<"var(--">>), Absent, Absent)

\* f with the file q added, and the directories above it inside the plugin root
RECURSIVE WithFile(_, _, _)
WithFile(f, q, e) ==
    IF Len(q) =< Len(PluginRoot) + 1 THEN WriteFile(f, q, e)
    ELSE WriteFile(WithFile(f, Dirname(q), DirEntry), q, e)

\* complete plugins that hold one more file: an earlier build artifact, OS
\* metadata, a dependency cache, a dot file, a source file in a subdirectory
FsExtras ==
    {WithFile(CompletePlugin, PluginRoot \o q, e) :
        q \in { << <<"old", ".zip">> >>,
                << <<"Thumbs.db">> >>,
                << <<"node_modules">>, <<"dep.js">> >>,
                << <<"sub">>, <<"node_modules">>, <<"dep.js">> >>,
                << <<".", "env">> >>,
                << <<"lib">>, <<"util.js">> >> },
        e \in {TextFile(<<"x">>), Unreadable(TextFile(<<"x">>))}}

\* plugin directories in which a file exists but cannot be read
FsUnreadable ==
    {MkFs(DirEntry, manifest, html, script, backend, Absent, Absent, Absent) :
        manifest \in {JsonFile(GoodManifest), Unreadable(JsonFile(GoodManifest))},
        html     \in {TextFile(GoodHtml), Unreadable(TextFile(GoodHtml))},
        script   \in {TextFile(GoodScript), Unreadable(TextFile(GoodScript))},
        backend  \in {Absent, Unreadable(TextFile(GoodBackend)), TextFile(<<"initialize">>)}}

\* plugin directories that differ in how the scripts name the plugin API
\* and in the policy directive of the UI entry
ApiTexts ==
    { GoodScript, <<"markTabAsReady", "wintoolAPI">>, <<"window.", "wintoolAPI">>,
      <<"window.", "wintoolAPI", " ", "wintoolAPI">> }

FsApi ==
    {MkFs(DirEntry, JsonFile(GoodManifest), html, TextFile(script), backend,
          Absent, Absent, Absent) :
        html    \in {Absent, TextFile(GoodHtml), TextFile(<<"Content-Security-Policy">>),
                     TextFile(<<"wintoolAPI">>)},
        script  \in ApiTexts,
        backend \in {Absent} \cup {TextFile(t) : t \in ApiTexts}}

Init ==
    /\ fs \in FsPipeline \cup FsManifest \cup FsBackend \cup FsScanned \cup FsExtras
             \cup FsUnreadable \cup FsApi
    /\ cmd = "none"
    /\ pc = "idle"
    /\ validation = <<>>
    /\ security = <<>>
    /\ functionality = <<>>
    /\ stages = <<>>
    /\ result = "none"
    /\ outputPath = <<>>
    /\ packageCalls = 0
    /\ archived = {}
    /\ hash = <<>>
    /\ exitCode = -1
    /\ prevHash = <<>>
    /\ edits = 0
    /\ printed = NoOutput
    /\ earlier = NoEarlier
    /\ other = OtherIdle

Spec == Init /\ [][Next]_vars

----------------------------------------------------------------------------
(* Commands repeated on a disk that only the CLI itself writes to *)

\* complete plugins with or without an extra file, a plugin whose declared
\* name puts the archive inside its root, and a plugin without UI entry
FsRerun ==
    FsExtras
    \cup {CompletePlugin,
          MkFs(DirEntry, JsonFile([GoodManifest EXCEPT !.name = Str(<<"plug", "/", "out">>)]),
               TextFile(GoodHtml), TextFile(LegacyScript), Absent, Absent, Absent, Absent),
          MkFs(DirEntry, JsonFile(GoodManifest), Absent, TextFile(GoodScript),
               TextFile(<<"initialize">>), Absent, Absent, Absent)}

InitRerun ==
    /\ fs \in FsRerun
    /\ cmd = "none"
    /\ pc = "idle"
    /\ validation = <<>>
    /\ security = <<>>
    /\ functionality = <<>>
    /\ stages = <<>>
    /\ result = "none"
    /\ outputPath = <<>>
    /\ packageCalls = 0
    /\ archived = {}
    /\ hash = <<>>
    /\ exitCode = -1
    /\ prevHash = <<>>
    /\ edits = 0
    /\ printed = NoOutput
    /\ earlier = NoEarlier
    /\ other = OtherIdle

NextRerun ==
    \/ \E c \in Commands : Run(c)
    \/ ValidatePlugin
    \/ SecurityScan
    \/ TestValidation
    \/ TestSecurity
    \/ TestFunctionality
    \/ BuildValidate
    \/ BuildScan
    \/ BuildPackage
    \/ PackageOpen
    \/ PackageStreamError
    \/ PackageArchiveError
    \/ PackageClose
    \/ BuildHash
    \/ ProcessExit
    \/ Rerun

SpecRerun == InitRerun /\ [][NextRerun]_vars

----------------------------------------------------------------------------
(* Builds repeated while the developer works on the plugin *)

\* the developer appends a lexeme to a plugin file between two invocations
EditAppend(name, tok) ==
    /\ cmd = "none"
    /\ edits < MaxEdits
    /\ CanRead(fs, InRoot(name))
    /\ fs' = [fs EXCEPT ![InRoot(name)].text = Append(@, tok)]
    /\ edits' = edits + 1
    /\ UNCHANGED <<cmd, pc, validation, security, functionality, stages, result,
                   outputPath, packageCalls, archived, hash, exitCode, prevHash>>
    /\ UNCHANGED <<printed, earlier, other>>

\* the developer deletes the last lexeme of a plugin file between two invocations
EditTruncate(name) ==
    /\ cmd = "none"
    /\ edits < MaxEdits
    /\ CanRead(fs, InRoot(name))
    /\ fs[InRoot(name)].text # <<>>
    /\ fs' = [fs EXCEPT ![InRoot(name)].text = SubSeq(@, 1, Len(@) - 1)]
    /\ edits' = edits + 1
    /\ UNCHANGED <<cmd, pc, validation, security, functionality, stages, result,
                   outputPath, packageCalls, archived, hash, exitCode, prevHash>>
    /\ UNCHANGED <<printed, earlier, other>>

\* a file's modification time changes, its bytes do not
Touch(name) ==
    /\ cmd = "none"
    /\ InRoot(name) \in DOMAIN fs
    /\ fs[InRoot(name)].mtime = 0
    /\ fs' = [fs EXCEPT ![InRoot(name)].mtime = 1]
    /\ UNCHANGED <<cmd, pc, validation, security, functionality, stages, result,
                   outputPath, packageCalls, archived, hash, exitCode, prevHash, edits>>
    /\ UNCHANGED <<printed, earlier, other>>

EditedFiles == {"script.js", "styles.css"}

NextRebuild ==
    \/ Next
    \/ \E name \in EditedFiles : EditAppend(name, "var(--")
    \/ \E name \in EditedFiles : EditTruncate(name)
    \/ Touch("script.js")

InitRebuild ==
    /\ fs \in {CompletePlugin,
                MkFs(DirEntry, JsonFile(GoodManifest), TextFile(GoodHtml), TextFile(GoodScript),
                     Absent, Unreadable(TextFile(<<"var(--">>)), Absent, Absent)}
    /\ cmd = "none"
    /\ pc = "idle"
    /\ validation = <<>>
    /\ security = <<>>
    /\ functionality = <<>>
    /\ stages = <<>>
    /\ result = "none"
    /\ outputPath = <<>>
    /\ packageCalls = 0
    /\ archived = {}
    /\ hash = <<>>
    /\ exitCode = -1
    /\ prevHash = <<>>
    /\ edits = 0
    /\ printed = NoOutput
    /\ earlier = NoEarlier
    /\ other = OtherIdle

SpecRebuild == InitRebuild /\ [][NextRebuild]_vars

----------------------------------------------------------------------------
(* A second CLI process builds the plugin in the directory next door *)

OtherRoot == << <<"sub">> >>

\* buildPlugin in the second process, first gate
OtherValidate ==
    /\ other.pc = "start"
    /\ other' = IF RunValidation(fs, OtherRoot).isValid
                THEN [other EXCEPT !.pc = "b_scan"]
                ELSE [other EXCEPT !.pc = "returned", !.result = "false"]
    /\ UNCHANGED <<fs, cmd, pc, validation, security, functionality, stages, result,
                   outputPath, packageCalls, archived, hash, exitCode, prevHash, edits,
                   printed, earlier>>

\* buildPlugin in the second process, second gate
OtherScan ==
    /\ other.pc = "b_scan"
    /\ other' = IF RunSecurityScan(fs, OtherRoot).isSecure
                THEN [other EXCEPT !.pc = "b_package"]
                ELSE [other EXCEPT !.pc = "returned", !.result = "false"]
    /\ UNCHANGED <<fs, cmd, pc, validation, security, functionality, stages, result,
                   outputPath, packageCalls, archived, hash, exitCode, prevHash, edits,
                   printed, earlier>>

\* buildPlugin in the second process: the output path is derived
OtherPackage ==
    /\ other.pc = "b_package"
    /\ other' = IF OutputPathThrows(fs, OtherRoot)
                THEN [other EXCEPT !.pc = "returned", !.result = "false"]
                ELSE [other EXCEPT !.pc = "b_open", !.outputPath = OutputPath(fs, OtherRoot)]
    /\ UNCHANGED <<fs, cmd, pc, validation, security, functionality, stages, result,
                   outputPath, packageCalls, archived, hash, exitCode, prevHash, edits,
                   printed, earlier>>

\* createPluginPackage in the second process: the write stream opens
OtherOpen ==
    /\ other.pc = "b_open"
    /\ CanOpenForWrite(fs, other.outputPath)
    /\ fs' = WriteFile(fs, other.outputPath, PartialArchive)
    /\ other' = [other EXCEPT !.pc = "b_write"]
    /\ UNCHANGED <<cmd, pc, validation, security, functionality, stages, result,
                   outputPath, packageCalls, archived, hash, exitCode, prevHash, edits,
                   printed, earlier>>

\* createPluginPackage in the second process: the write stream fails
OtherStreamError ==
    /\ other.pc \in {"b_open", "b_write"}
    /\ other' = [other EXCEPT !.pc = "crashed"]
    /\ UNCHANGED <<fs, cmd, pc, validation, security, functionality, stages, result,
                   outputPath, packageCalls, archived, hash, exitCode, prevHash, edits,
                   printed, earlier>>

\* createPluginPackage in the second process: archive emits 'error'
OtherArchiveError ==
    /\ other.pc = "b_write"
    /\ ArchiveThrows(fs, OtherRoot)
    /\ other' = [other EXCEPT !.pc = "returned", !.result = "false"]
    /\ UNCHANGED <<fs, cmd, pc, validation, security, functionality, stages, result,
                   outputPath, packageCalls, archived, hash, exitCode, prevHash, edits,
                   printed, earlier>>

\* createPluginPackage in the second process: output emits 'close'
OtherClose ==
    /\ other.pc = "b_write"
    /\ ~ArchiveThrows(fs, OtherRoot)
    /\ fs' = WriteFile(fs, other.outputPath, CompleteArchive)
    /\ other' = [other EXCEPT !.pc = "b_hash", !.archived = ArchiveFiles(fs, OtherRoot)]
    /\ UNCHANGED <<cmd, pc, validation, security, functionality, stages, result,
                   outputPath, packageCalls, archived, hash, exitCode, prevHash, edits,
                   printed, earlier>>

\* buildPlugin in the second process: the hash, then the return
OtherHash ==
    /\ other.pc = "b_hash"
    /\ IF HashThrows(fs, OtherRoot)
       THEN other' = [other EXCEPT !.pc = "returned", !.result = "false"]
       ELSE \E listed \in Enumerations(GetAllFiles(fs, OtherRoot)) :
               other' = [other EXCEPT !.pc = "returned", !.result = "true",
                                      !.hash = <<CalculateDirectoryHash(fs, listed)>>]
    /\ UNCHANGED <<fs, cmd, pc, validation, security, functionality, stages, result,
                   outputPath, packageCalls, archived, hash, exitCode, prevHash, edits,
                   printed, earlier>>

\* the disk f with a plugin at OtherRoot whose manifest declares name
WithOther(f, name, css) ==
    LET f1 == WriteFile(f, OtherRoot, DirEntry)
        f2 == WriteFile(f1, Append(OtherRoot, <<"plugin.json">>),
                        JsonFile([GoodManifest EXCEPT !.name = name]))
        f3 == WriteFile(f2, Append(OtherRoot, <<"index.html">>), TextFile(GoodHtml))
        f4 == WriteFile(f3, Append(OtherRoot, <<"script.js">>), TextFile(GoodScript))
    IN  IF css.type = "none" THEN f4
        ELSE WriteFile(f4, Append(OtherRoot, <<"styles.css">>), css)

\* two plugins side by side: the first declares a name or none, the second
\* declares the same name, the first one's directory name, or a name with
\* a separator in it
FsPair ==
    {WithOther(MkFs(DirEntry, JsonFile([GoodManifest EXCEPT !.name = name]), TextFile(GoodHtml),
                    TextFile(GoodScript), Absent, css, Absent, Absent),
               otherName, otherCss) :
        name      \in {Str(<<"My", " ", "Plugin">>), Undefined},
        css       \in {Absent, Unreadable(TextFile(<<"var(--">>))},
        otherName \in {Str(<<"My", " ", "Plugin">>), Str(<<"plug">>), Str(<<"plug", "/", "out">>)},
        otherCss  \in {Absent, Unreadable(TextFile(<<"var(--">>))}}

InitPair ==
    /\ fs \in FsPair
    /\ cmd = "none"
    /\ pc = "idle"
    /\ validation = <<>>
    /\ security = <<>>
    /\ functionality = <<>>
    /\ stages = <<>>
    /\ result = "none"
    /\ outputPath = <<>>
    /\ packageCalls = 0
    /\ archived = {}
    /\ hash = <<>>
    /\ exitCode = -1
    /\ prevHash = <<>>
    /\ edits = 0
    /\ printed = NoOutput
    /\ earlier = NoEarlier
    /\ other = [OtherIdle EXCEPT !.pc = "start"]

NextPair ==
    \/ Next
    \/ OtherValidate
    \/ OtherScan
    \/ OtherPackage
    \/ OtherOpen
    \/ OtherStreamError
    \/ OtherArchiveError
    \/ OtherClose
    \/ OtherHash

SpecPair == InitPair /\ [][NextPair]_vars

----------------------------------------------------------------------------
(* Vocabulary of the properties *)

Elems(seq) == {seq[i] : i \in 1..Len(seq)}

\* number of entries of seq equal to e
Count(seq, e) == Cardinality({i \in 1..Len(seq) : seq[i] = e})

\* the file name of the plugin root can be read
ReadableIn(name) == CanRead(fs, InRoot(name))

\* the manifest on disk parses to a non-null value
HasManifest == ManifestParses(fs, PluginRoot) /\ ParseManifest(fs, PluginRoot).kind = "object"

\* the manifest declares a backend path: a non-empty string
DeclaresBackend == HasManifest /\ ParseManifest(fs, PluginRoot).backend.t = "string"
                               /\ ParseManifest(fs, PluginRoot).backend.s # <<>>

\* the declared backend path, resolved against the plugin root
DeclaredBackendPath == Join(PluginRoot, ParseManifest(fs, PluginRoot).backend.s)

\* the manifest is a well-formed PluginManifest: every field is absent or
\* a string, and a declared backend names an existing file
WellFormedManifest ==
    /\ HasManifest
    /\ \A field \in {"name", "description", "version", "author", "icon", "backend"} :
          Field(ParseManifest(fs, PluginRoot), field).t \in {"undefined", "string"}
    /\ DeclaresBackend => Access(fs, DeclaredBackendPath)

BackendErrors(v) == {e \in Elems(v.errors) : e.msg = "Backend file specified but not found"}

HighRules   == {<<"eval", "(">>, <<"Function", "(">>}
MediumRules == {<<"innerHTML", "=">>, <<"document.write", "(">>, <<"window.location", "=">>,
                <<"require", "(">>}

\* text holds a match of one of the rules
HoldsRule(text, rules) == \E r \in rules : MatchesSpaced(text, r[1], r[2])

HighFindings(r) == {i \in Elems(r.issues) : i.severity = "high"}

\* no content the scan reads holds a high-severity pattern
NoHighPatternOnDisk ==
    /\ \A name \in {"script.js", "backend.js"} :
          ReadableIn(name) => ~HoldsRule(ReadText(fs, InRoot(name)), HighRules)
    /\ ReadableIn("index.html") =>
          ~(/\ Includes(ReadText(fs, InRoot("index.html")), <<"<script>">>)
            /\ Includes(ReadText(fs, InRoot("index.html")), <<"eval", "(">>))

----------------------------------------------------------------------------
(* Properties *)

\* C1: a build never calls createPluginPackage and returns false whenever
\* runValidation or runSecurityScan rejects the plugin directory, whatever
\* the functionality checks would say.
BuildGating ==
    (/\ cmd = "build"
     /\ \/ ~RunValidation(fs, PluginRoot).isValid
        \/ ~RunSecurityScan(fs, PluginRoot).isSecure)
    => /\ packageCalls = 0
       /\ "package" \notin Elems(stages)
       /\ pc \notin {"b_open", "b_write", "b_hash", "crashed"}
       /\ pc = "returned" => result = "false"

\* a build rejected by the scan alone, on a plugin whose functionality checks pass
BuildGatingWitness ==
    /\ cmd = "build" /\ pc = "returned" /\ result = "false"
    /\ validation # <<>> /\ validation[1].isValid
    /\ security # <<>> /\ ~security[1].isSecure
    /\ RunFunctionalityTests(fs, PluginRoot).passed
    /\ packageCalls = 0

\* C2: in every ValidationReport returned, isValid holds exactly when
\* errors is empty.
ValidIffNoErrors ==
    validation # <<>> => (validation[1].isValid <=> validation[1].errors = <<>>)

\* a returned report with several errors, and invalid
ValidIffNoErrorsWitness ==
    /\ validation # <<>>
    /\ Len(validation[1].errors) >= 2
    /\ ~validation[1].isValid

\* C3: in every SecurityReport returned, isSecure holds exactly when no
\* issue has severity high; medium findings alone leave it true.
SecureIffNoHigh ==
    security # <<>> => (security[1].isSecure <=> HighFindings(security[1]) = {})

\* a returned report that lists a medium and a high finding
SecureIffNoHighWitness ==
    /\ security # <<>>
    /\ ~security[1].isSecure
    /\ \E i \in Elems(security[1].issues) : i.severity = "medium"
    /\ HighFindings(security[1]) # {}

\* C4: for an existing plugin root, the report holds exactly one
\* 'Required file missing' error for each absent required file and none for
\* a present one, and is invalid if any is absent; a root that holds nothing
\* but a well-formed manifest gets exactly 2 errors.
RequiredFilesAccumulate ==
    (validation # <<>> /\ Access(fs, PluginRoot)) =>
       /\ \A i \in 1..Len(requiredFiles) :
             Count(validation[1].errors, Msg("Required file missing", requiredFiles[i]))
                = IF Access(fs, Append(PluginRoot, requiredFiles[i])) THEN 0 ELSE 1
       /\ (\E i \in 1..Len(requiredFiles) : ~Access(fs, Append(PluginRoot, requiredFiles[i])))
             => ~validation[1].isValid
       /\ ({q \in DOMAIN fs : IsUnder(q, PluginRoot)} = {InRoot("plugin.json")}
             /\ WellFormedManifest)
             => Len(validation[1].errors) = 2 /\ ~validation[1].isValid

\* the report for a root that holds only a well-formed manifest
RequiredFilesAccumulateWitness ==
    /\ validation # <<>>
    /\ Access(fs, PluginRoot)
    /\ {q \in DOMAIN fs : IsUnder(q, PluginRoot)} = {InRoot("plugin.json")}
    /\ WellFormedManifest
    /\ validation[1].errors = << Msg("Required file missing", <<"index.html">>),
                                 Msg("Required file missing", <<"script.js">>) >>

\* C5: a declared backend path that names nothing on disk yields a
\* backend error and an invalid report; a manifest that declares no backend
\* never yields a backend error.
BackendMissingIsFatal ==
    (validation # <<>> /\ Access(fs, PluginRoot)) =>
       /\ (DeclaresBackend /\ ~Access(fs, DeclaredBackendPath))
             => BackendErrors(validation[1]) # {} /\ ~validation[1].isValid
       /\ (~HasManifest \/ ParseManifest(fs, PluginRoot).backend = Undefined)
             => BackendErrors(validation[1]) = {}

\* the report for a manifest whose declared backend is missing, nothing else wrong
BackendMissingIsFatalWitness ==
    /\ validation # <<>>
    /\ DeclaresBackend /\ ~Access(fs, DeclaredBackendPath)
    /\ Len(validation[1].errors) = 1
    /\ BackendErrors(validation[1]) # {}

\* C6: a manifest whose backend path leaves the plugin root and names an
\* existing file outside it is never reported valid.
TraversalNeverAccepted ==
    (/\ validation # <<>>
     /\ DeclaresBackend
     /\ ~IsUnder(DeclaredBackendPath, PluginRoot)
     /\ Access(fs, DeclaredBackendPath))
    => ~validation[1].isValid

\* C7: when script.js holds eval directly followed by an opening
\* parenthesis, the scan lists a high finding for script.js and is insecure.
EvalIsHigh ==
    (/\ security # <<>>
     /\ ReadableIn("script.js")
     /\ Includes(ReadText(fs, InRoot("script.js")), <<"eval", "(">>))
    => /\ \E i \in HighFindings(security[1]) : i.file = <<"script.js">>
       /\ ~security[1].isSecure

\* a scan of a plugin whose only flaw is the eval call in script.js
EvalIsHighWitness ==
    /\ security # <<>>
    /\ ReadableIn("script.js")
    /\ Includes(ReadText(fs, InRoot("script.js")), <<"eval", "(">>)
    /\ Len(security[1].issues) = 1
    /\ ~security[1].isSecure

\* C8: when script.js holds medium-severity patterns and nothing the scan
\* reads holds a high-severity pattern, the medium findings are listed and
\* isSecure is true.
MediumOnlyPasses ==
    (/\ security # <<>>
     /\ ReadableIn("script.js")
     /\ HoldsRule(ReadText(fs, InRoot("script.js")), MediumRules)
     /\ NoHighPatternOnDisk)
    => /\ security[1].isSecure
       /\ \E i \in Elems(security[1].issues) :
             i.severity = "medium" /\ i.file = <<"script.js">>

\* a passing scan that lists two medium findings for script.js
MediumOnlyPassesWitness ==
    /\ security # <<>>
    /\ security[1].isSecure
    /\ Len(security[1].issues) = 2
    /\ \A i \in Elems(security[1].issues) :
          i.severity = "medium" /\ i.file = <<"script.js">>

\* C9: when the backend file the manifest declares exists and holds a
\* high-severity pattern, the scan lists a high finding and is insecure.
DeclaredBackendScanned ==
    (/\ security # <<>>
     /\ DeclaresBackend
     /\ CanRead(fs, DeclaredBackendPath)
     /\ HoldsRule(ReadText(fs, DeclaredBackendPath), HighRules))
    => /\ HighFindings(security[1]) # {}
       /\ ~security[1].isSecure

\* C10 as stated: in test and build alike the scan runs only after a
\* valid validation and the functionality check only after a secure scan.
StagesShortCircuit ==
    cmd \in {"test", "build"} =>
       /\ "security" \in Elems(stages) => validation[1].isValid
       /\ "functionality" \in Elems(stages) => security[1].isSecure

\* C10 amended: build runs the scan only after a valid validation and
\* packaging only after a secure scan, returning false at the failing gate
\* and never running the functionality check; test always runs validation,
\* scan and functionality check in that order and returns false when any
\* of the three failed.
BuildShortCircuitsTestRunsAll ==
    /\ cmd = "build" =>
          /\ "security" \in Elems(stages) => validation[1].isValid
          /\ "package" \in Elems(stages) => security # <<>> /\ security[1].isSecure
          /\ "functionality" \notin Elems(stages)
          /\ (pc = "returned" /\ ~validation[1].isValid)
                => stages = <<"validation">> /\ result = "false"
          /\ (pc = "returned" /\ security # <<>> /\ ~security[1].isSecure)
                => stages = <<"validation", "security">> /\ result = "false"
    /\ (cmd = "test" /\ pc = "returned") =>
          /\ stages = <<"validation", "security", "functionality">>
          /\ result = Bool(/\ validation[1].isValid
                           /\ security[1].isSecure
                           /\ functionality[1].passed)

\* a build stopped at the security gate
BuildShortCircuitsTestRunsAllWitness ==
    /\ cmd = "build" /\ pc = "returned"
    /\ stages = <<"validation", "security">>
    /\ ~security[1].isSecure
    /\ result = "false"

\* the process has run its command to the end
Finished == pc \in {"returned", "exited"}

\* C11 as stated: a test whose validation and scan both pass reports
\* overall success, whatever the functionality check found.
FunctionalityNotGating ==
    (cmd = "test" /\ Finished /\ validation[1].isValid /\ security[1].isSecure)
       => result = "true"

\* C11 amended: a test whose validation and scan both pass still runs the
\* functionality check, and reports overall success exactly when that
\* check passed too.
FunctionalityGatesTest ==
    (cmd = "test" /\ Finished /\ validation[1].isValid /\ security[1].isSecure)
       => /\ functionality # <<>>
          /\ result = "true" <=> functionality[1].passed

\* a test with valid structure and a secure scan, failed by the
\* functionality check alone
FunctionalityGatesTestWitness ==
    /\ cmd = "test" /\ Finished
    /\ validation[1].isValid /\ security[1].isSecure
    /\ ~functionality[1].passed
    /\ result = "false"

\* C12: the process ends with status 0 exactly when the stages of its
\* command passed, and with a non-zero status when one of them failed.
ExitStatusReflectsOutcome ==
    pc \in {"exited", "crashed"} => (exitCode = 0 <=> result = "true")

\* the process has ended, normally or not
Ended == pc \in {"returned", "exited", "crashed"}

\* C13: no build ever has an incomplete archive at its output path, and a
\* build that ends in failure leaves no archive of its own there.
ArchiveAtomic ==
    (cmd = "build" /\ outputPath \in DOMAIN fs) =>
       /\ fs[outputPath] # PartialArchive
       /\ (Ended /\ result # "true") => archived = {}

\* C14: a build that entered packaging ends by returning true or false;
\* an error of the destination never escapes as an unhandled failure.
BuildNeverCrashes ==
    (cmd = "build" /\ "package" \in Elems(stages)) => pc # "crashed"

\* C15: no step of a command creates, changes or deletes a file inside
\* the plugin root, whatever name the manifest declares.
RootUntouched ==
    [][cmd # "none" => InsideRoot(fs') = InsideRoot(fs)]_vars

\* C16: a successful build hashed exactly the files it archived.
HashCoversArchive ==
    (cmd = "build" /\ Finished /\ result = "true")
       => Elems(hash[1].files) = archived

\* the files a hash run read, each with the bytes it read
Included(h) == {<<h.files[i], h.bytes[i]>> : i \in 1..Len(h.files)}

\* this build and the one before it both produced a hash
Rebuilt == cmd = "build" /\ hash # <<>> /\ prevHash # <<>>

\* C17: two builds over the same included files with the same bytes get
\* the same digest, however the directory was enumerated and whatever the
\* files' timestamps are.
HashDeterministic ==
    (Rebuilt /\ Included(hash[1]) = Included(prevHash[1]))
       => hash[1].digest = prevHash[1].digest

\* a rebuild of unchanged files after a file's timestamp changed
HashDeterministicWitness ==
    /\ Rebuilt
    /\ Included(hash[1]) = Included(prevHash[1])
    /\ Len(hash[1].files) > 1
    /\ fs[InRoot("script.js")].mtime = 1
    /\ hash[1].digest = prevHash[1].digest

\* C18: two builds over the same file paths, where the bytes of at least
\* one file differ, get different digests.
HashSensitive ==
    (/\ Rebuilt
     /\ Elems(hash[1].files) = Elems(prevHash[1].files)
     /\ Included(hash[1]) # Included(prevHash[1]))
       => hash[1].digest # prevHash[1].digest

\* the issues the script test can raise
ScriptIssues(t) ==
    Elems(t.issues) \cap {"Script should listen for DOMContentLoaded event",
                          "Script should call markTabAsReady() when initialized"}

\* C19: for a readable script.js the functionality check raises a script
\* issue, and fails, exactly when the script lacks markTabAsReady or
\* contains DOMContentLoaded.
ScriptIdioms ==
    (functionality # <<>> /\ ReadableIn("script.js")) =>
       LET script   == ReadText(fs, InRoot("script.js"))
           violates == \/ ~Includes(script, <<"markTabAsReady">>)
                       \/ Includes(script, <<"DOMContentLoaded">>)
       IN  /\ ScriptIssues(functionality[1]) # {} <=> violates
           /\ violates => ~functionality[1].passed

\* the required files that fs.access rejects
MissingRequired ==
    {i \in 1..Len(requiredFiles) : ~Access(fs, Append(PluginRoot, requiredFiles[i]))}

\* the warnings that are raised from the manifest's fields
ManifestWarnings(v) ==
    {w \in Elems(v.warnings) : w.msg \in {"Recommended field missing in plugin.json",
                                          "Icon should be a Font Awesome class"}}

\* C20: for an existing plugin root whose plugin.json is absent, unreadable
\* or no structured data, validation returns a report with exactly one
\* 'Invalid plugin.json format' error, no field, icon or backend finding,
\* and one 'Required file missing' error per absent required file.
ManifestFailureIsOneError ==
    (validation # <<>> /\ Access(fs, PluginRoot) /\ ~HasManifest) =>
       /\ Count(validation[1].errors, Msg("Invalid plugin.json format", <<>>)) = 1
       /\ ~validation[1].isValid
       /\ ManifestWarnings(validation[1]) = {}
       /\ BackendErrors(validation[1]) = {}
       /\ \A i \in 1..Len(requiredFiles) :
             Count(validation[1].errors, Msg("Required file missing", requiredFiles[i]))
                = IF i \in MissingRequired THEN 1 ELSE 0
       /\ Len(validation[1].errors) = 1 + Cardinality(MissingRequired)

\* the report for a manifest that is no JSON in a root without script.js
ManifestFailureIsOneErrorWitness ==
    /\ validation # <<>>
    /\ Access(fs, PluginRoot)
    /\ Access(fs, InRoot("plugin.json")) /\ ~HasManifest
    /\ validation[1].errors = << Msg("Required file missing", <<"script.js">>),
                                 Msg("Invalid plugin.json format", <<>>) >>

\* C21: for a manifest that parses to an object, missing recommended
\* fields and an icon outside the icon-class convention raise no error and
\* leave isValid to the required-file and backend checks.
ManifestAdvisoriesOnlyWarn ==
    (validation # <<>> /\ Access(fs, PluginRoot) /\ HasManifest) =>
       /\ Count(validation[1].errors, Msg("Invalid plugin.json format", <<>>)) = 0
       /\ validation[1].isValid <=> (MissingRequired = {} /\ BackendErrors(validation[1]) = {})

\* C22: validation returns a report, and a manifest or UI entry that
\* exists but cannot be read shows in it as an error.
UnreadableFileIsError ==
    (validation # <<>> /\ Access(fs, PluginRoot)) =>
       \A name \in {"plugin.json", "index.html"} :
          (Access(fs, InRoot(name)) /\ ~CanRead(fs, InRoot(name)))
             => /\ validation[1].errors # <<>>
                /\ ~validation[1].isValid

\* C23: when a command has finished, every error, warning, issue and
\* recommendation of each report it obtained has been printed.
ExhaustiveReporting ==
    (cmd \in Commands /\ Finished) =>
       /\ validation # <<>> =>
             /\ Elems(validation[1].errors) \subseteq Elems(printed.errors)
             /\ Elems(validation[1].warnings) \subseteq Elems(printed.warnings)
       /\ security # <<>> =>
             /\ Elems(security[1].issues) \subseteq Elems(printed.issues)
             /\ Elems(security[1].recommendations) \subseteq Elems(printed.recommendations)
       /\ functionality # <<>> =>
             Elems(functionality[1].issues) \subseteq Elems(printed.testIssues)

\* a stage's report of this run next to the one an ended run left for the
\* same content of the plugin root
Again(entry, report) ==
    report # <<>> /\ entry # <<>> /\ entry[1].root = InsideRoot(fs)

\* C24: a stage run again on an unchanged plugin root returns the report
\* it returned before, whatever commands ran in between.
ReportsIdempotent ==
    /\ Again(earlier.validation, validation)
          => validation[1] = earlier.validation[1].report
    /\ Again(earlier.security, security)
          => security[1] = earlier.security[1].report
    /\ Again(earlier.functionality, functionality)
          => functionality[1] = earlier.functionality[1].report

\* all three stages run again on a root next to which a build has left
\* its archive
ReportsIdempotentWitness ==
    /\ Again(earlier.validation, validation)
    /\ Again(earlier.security, security)
    /\ Again(earlier.functionality, functionality)
    /\ \E q \in DOMAIN fs : fs[q] = CompleteArchive
    /\ functionality[1] = earlier.functionality[1].report

\* the disk as it was before any build wrote an archive to it
Disk0 ==
    [q \in {q \in DOMAIN fs : fs[q].text \notin {<<"zip">>, <<"zip-partial">>}} |-> fs[q]]

\* the two plugins next to each other build to different archive paths
DistinctTargets == OutputPath(Disk0, PluginRoot) # OutputPath(Disk0, OtherRoot)

\* what a build of the plugin at root, run alone, archives and hashes
AloneArchived(root) == ArchiveFiles(Disk0, root)
AloneHashes(root) ==
    {CalculateDirectoryHash(Disk0, listed) : listed \in Enumerations(GetAllFiles(Disk0, root))}

\* C25: two runs on distinct roots with distinct archive paths, interleaved
\* in any way, each get the reports, the archive content and the hash they
\* get when run alone.
RunsIsolated ==
    DistinctTargets =>
       /\ validation # <<>> => validation[1] = RunValidation(Disk0, PluginRoot)
       /\ security # <<>> => security[1] = RunSecurityScan(Disk0, PluginRoot)
       /\ functionality # <<>> => functionality[1] = RunFunctionalityTests(Disk0, PluginRoot)
       /\ (cmd = "build" /\ Finished /\ hash # <<>>)
             => archived = AloneArchived(PluginRoot) /\ hash[1] \in AloneHashes(PluginRoot)
       /\ (other.pc = "returned" /\ other.hash # <<>>)
             => /\ other.archived = AloneArchived(OtherRoot)
                /\ other.hash[1] \in AloneHashes(OtherRoot)

\* manifest.name || path.basename(pluginPath)
DeclaredName(root) ==
    IF Truthy(ParseManifest(fs, root).name) THEN ParseManifest(fs, root).name.s
    ELSE Basename(root)

\* C30: the archive path is the parent directory joined with the declared
\* name, whitespace runs turned into '-', or with the directory name when
\* no name is declared; two plugins under one parent that declare the same
\* name build to the same path.
ArchivePathFromName ==
    /\ (cmd = "build" /\ outputPath # <<>>) =>
          /\ DeclaredName(PluginRoot) = <<"My", " ", "Plugin">>
                => outputPath = Dirname(PluginRoot) \o << <<"My", "-", "Plugin", ".zip">> >>
          /\ ParseManifest(fs, PluginRoot).name = Undefined
                => outputPath = Dirname(PluginRoot) \o << Basename(PluginRoot) \o <<".zip">> >>
    /\ (/\ cmd = "build" /\ outputPath # <<>> /\ other.outputPath # <<>>
        /\ DeclaredName(PluginRoot) = DeclaredName(OtherRoot))
          => outputPath = other.outputPath

\* a finished, successful build whose archive the build next door is
\* writing over
ArchivePathFromNameWitness ==
    /\ cmd = "build" /\ Finished /\ result = "true"
    /\ DeclaredName(PluginRoot) = DeclaredName(OtherRoot)
    /\ other.pc = "b_write"
    /\ other.outputPath = outputPath
    /\ fs[outputPath] = PartialArchive

\* C26: a missing backend.js or styles.css raises no issue; a readable
\* backend.js is tested for its export form and its initialize entry, a
\* readable styles.css for a custom property, whatever became of the
\* script.js checks.
OptionalFilesChecked ==
    functionality # <<>> =>
       LET issues == Elems(functionality[1].issues)
           has(m) == m \in issues
           backend == InRoot("backend.js")
           css == InRoot("styles.css")
       IN  /\ ~Access(fs, backend) =>
                 /\ ~has("Backend should export module with initialize function")
                 /\ ~has("Backend should have initialize function")
           /\ ~Access(fs, css) => ~has("CSS should use CSS variables for theming")
           /\ CanRead(fs, backend) =>
                 /\ has("Backend should export module with initialize function")
                       <=> ~Includes(ReadText(fs, backend), <<"module.exports">>)
                 /\ has("Backend should have initialize function")
                       <=> ~Includes(ReadText(fs, backend), <<"initialize">>)
           /\ CanRead(fs, css) =>
                 (has("CSS should use CSS variables for theming")
                       <=> ~Includes(ReadText(fs, css), <<"var(--">>))

\* the scanned script files that name the plugin API and nowhere with
\* the window. prefix
BareApiFiles ==
    {i \in 1..Len(jsFiles) :
        /\ CanRead(fs, PluginRoot \o <<jsFiles[i]>>)
        /\ Includes(ReadText(fs, PluginRoot \o <<jsFiles[i]>>), <<"wintoolAPI">>)
        /\ ~Includes(ReadText(fs, PluginRoot \o <<jsFiles[i]>>), <<"window.", "wintoolAPI">>)}

\* the UI entry can be read and holds no policy directive
LacksPolicy ==
    /\ ReadableIn("index.html")
    /\ ~Includes(ReadText(fs, InRoot("index.html")), <<"Content-Security-Policy">>)

\* C27 as stated: a scan makes the namespacing recommendation exactly
\* once when a script uses the API without prefix, the policy
\* recommendation exactly once when the UI entry has no directive, and
\* isSecure follows the high findings alone.
RecommendationsOnce ==
    security # <<>> =>
       /\ Count(security[1].recommendations, "Use window.wintoolAPI for better compatibility")
             = IF BareApiFiles # {} THEN 1 ELSE 0
       /\ Count(security[1].recommendations, "Consider adding Content-Security-Policy meta tag")
             = IF LacksPolicy THEN 1 ELSE 0
       /\ security[1].isSecure <=> HighFindings(security[1]) = {}

\* C27 amended: a scan makes the namespacing recommendation once for each
\* scanned script file that uses the API without prefix, the policy
\* recommendation exactly once when the UI entry has no directive, no
\* other recommendation, and isSecure follows the high findings alone.
RecommendationsPerFile ==
    security # <<>> =>
       /\ Count(security[1].recommendations, "Use window.wintoolAPI for better compatibility")
             = Cardinality(BareApiFiles)
       /\ Count(security[1].recommendations, "Consider adding Content-Security-Policy meta tag")
             = IF LacksPolicy THEN 1 ELSE 0
       /\ Len(security[1].recommendations)
             = Cardinality(BareApiFiles) + (IF LacksPolicy THEN 1 ELSE 0)
       /\ security[1].isSecure <=> HighFindings(security[1]) = {}

\* a scan of a plugin whose script.js and backend.js both use the bare API
RecommendationsPerFileWitness ==
    /\ security # <<>>
    /\ Cardinality(BareApiFiles) = 2
    /\ LacksPolicy
    /\ Len(security[1].recommendations) = 3
    /\ security[1].isSecure

\* C28: for a plugin root that does not exist the report is invalid and
\* holds the one error 'Plugin directory does not exist' and nothing else.
MissingRootReturnsAtOnce ==
    (validation # <<>> /\ ~Access(fs, PluginRoot)) =>
       validation[1] = [isValid  |-> FALSE,
                        errors   |-> <<Msg("Plugin directory does not exist", <<>>)>>,
                        warnings |-> <<>>]

\* the report for a plugin root that does not exist
MissingRootReturnsAtOnceWitness ==
    /\ validation # <<>>
    /\ ~Access(fs, PluginRoot)
    /\ Len(validation[1].errors) = 1
    /\ ~validation[1].isValid

\* C29: a functionality report has passed exactly when it holds no issue.
PassedIffNoIssues ==
    functionality # <<>> =>
       (functionality[1].passed <=> functionality[1].issues = <<>>)

\* the report after script.js could not be read
PassedIffNoIssuesWitness ==
    /\ functionality # <<>>
    /\ ~ReadableIn("script.js")
    /\ functionality[1].issues = <<"Test error">>
    /\ ~functionality[1].passed

====
